---------------------------- MODULE Spec2Model ----------------------------
(***************************************************************************)
(* Model of agricultural_analysis_app.py: a Streamlit script that loads    *)
(* three CSV tables (cropland values, crop prices, a price index),         *)
(* normalises their Value column, and on every script run renders three    *)
(* sections: a filtered cropland chart with per-state summary statistics,  *)
(* the crop price chart with the latest prices, and the price index chart  *)
(* with its key figures.                                                   *)
(*                                                                         *)
(* Representation.  A CSV cell is a text: a sequence of one-character      *)
(* strings.  A float is a record [isna, num]: NaN is [isna |-> TRUE], a    *)
(* number is held exactly in units of 1/Scale, where Scale is large        *)
(* enough for every fractional digit a text of MaxRawLen characters can    *)
(* carry.  A DataFrame is a sequence of row records; a DataFrame object    *)
(* lives in `heap` and a Python name is bound to it in `env`, so that a    *)
(* column assignment through one name is seen through every alias.         *)
(***************************************************************************)
EXTENDS Integers, Sequences, FiniteSets, TLC

VARIABLES
    files,          \* the three CSV files: tables of raw rows (Value is a text)
    pc,             \* position of the script run
    analysis_type,  \* value of the sidebar selectbox for this run (line 20)
    heap,           \* DataFrame objects, by object id (position)
    env,            \* Python names -> object id, 0 when unbound
    loaded,         \* history: the three frames as the load functions returned them
    cropland_out,   \* what the cropland section rendered
    crop_out,       \* what the crop prices section rendered
    index_out,      \* what the price index section rendered
    error,          \* the exception that ended the run, "None" when none
    ret             \* result of a direct create_cropland_chart call

vars == <<files, pc, analysis_type, heap, env, loaded,
          cropland_out, crop_out, index_out, error, ret>>

---------------------------------------------------------------------------
(* Bounds *)

\* Longest raw Value text read from a CSV file.
MaxRawLen == 3

\* Most rows of a dataset that is enumerated exhaustively.
MaxRows == 3

---------------------------------------------------------------------------
(* Numbers *)

RECURSIVE Pow10(_)
Pow10(n) == IF n = 0 THEN 1 ELSE 10 * Pow10(n - 1)

\* Units per whole: a text of MaxRawLen characters has at most MaxRawLen - 1
\* fractional digits, so every parsed value is a whole number of 1/Scale.
Scale == Pow10(MaxRawLen - 1)

NaN == [isna |-> TRUE, num |-> 0]

Num(v) == [isna |-> FALSE, num |-> v]

\* a / b rounded to the nearest integer, halves to the even neighbour
\* (numpy's rint, used by DataFrame.round), for a >= 0 and b > 0.
RoundHalfEven(a, b) ==
    LET q == a \div b
        r == a % b
    IN  IF 2 * r < b THEN q
        ELSE IF 2 * r > b THEN q + 1
        ELSE IF q % 2 = 0 THEN q ELSE q + 1

---------------------------------------------------------------------------
(* Value normalisation: lines 26-42 *)

Digits == {"0", "1", "2", "3", "4", "5", "6", "7", "8", "9"}

DigitVal(c) ==
    CASE c = "0" -> 0 [] c = "1" -> 1 [] c = "2" -> 2 [] c = "3" -> 3
      [] c = "4" -> 4 [] c = "5" -> 5 [] c = "6" -> 6 [] c = "7" -> 7
      [] c = "8" -> 8 [] c = "9" -> 9

\* .str.replace(',', ''): every comma removed, wherever it stands.
str_replace_comma(t) == SelectSeq(t, LAMBDA c : c # ",")

\* The scanner stops at the first position from i on that holds no digit.
RECURSIVE ScanDigits(_, _)
ScanDigits(t, i) ==
    IF i <= Len(t) /\ t[i] \in Digits THEN ScanDigits(t, i + 1) ELSE i

\* Value of the digits t[a..b-1], most significant first, after acc.
RECURSIVE DigitsValue(_, _, _, _)
DigitsValue(t, a, b, acc) ==
    IF a >= b THEN acc ELSE DigitsValue(t, a + 1, b, 10 * acc + DigitVal(t[a]))

\* pd.to_numeric(..., errors='coerce') on one cell: digits, an optional
\* decimal point, digits; at least one digit; nothing left over.  Anything
\* else, the empty cell included, is coerced to NaN.
to_numeric(t) ==
    LET intEnd  == ScanDigits(t, 1)
        hasDot  == intEnd <= Len(t) /\ t[intEnd] = "."
        fracEnd == IF hasDot THEN ScanDigits(t, intEnd + 1) ELSE intEnd
        nFrac   == IF hasDot THEN fracEnd - intEnd - 1 ELSE 0
        nDigits == (intEnd - 1) + nFrac
    IN  IF nDigits > 0 /\ fracEnd = Len(t) + 1
        THEN Num(DigitsValue(t, 1, intEnd, 0) * Scale
                 + DigitsValue(t, intEnd + 1, intEnd + 1 + nFrac, 0)
                   * Pow10(MaxRawLen - 1 - nFrac))
        ELSE NaN

\* Mutant of load_cropland_data: rows whose Value did not parse are dropped.
load_cropland_data_dropna(csv) ==
    SelectSeq([i \in 1..Len(csv) |->
                  [State |-> csv[i].State, Year |-> csv[i].Year,
                   Value |-> to_numeric(str_replace_comma(csv[i].Value))]],
              LAMBDA r : ~r.Value.isna)

load_cropland_data(csv) ==
    [i \in 1..Len(csv) |->
        [State |-> csv[i].State, Year |-> csv[i].Year,
         Value |-> to_numeric(str_replace_comma(csv[i].Value))]]

load_crop_prices_data(csv) ==
    [i \in 1..Len(csv) |->
        [Commodity |-> csv[i].Commodity, Year |-> csv[i].Year,
         Value |-> to_numeric(csv[i].Value)]]

load_index_data(csv) ==
    [i \in 1..Len(csv) |->
        [Year |-> csv[i].Year, Value |-> to_numeric(csv[i].Value)]]

---------------------------------------------------------------------------
(* Cropland chart: lines 50-80 *)

None == [tag |-> "None"]

\* A returned frame, told apart from None by its tag.
DataFrame(rows) == [tag |-> "DataFrame", rows |-> rows]

\* Series.str.title() on the state names that occur.
str_title(s) ==
    CASE s = "KENTUCKY"  -> "Kentucky"
      [] s = "INDIANA"   -> "Indiana"
      [] s = "OHIO"      -> "Ohio"
      [] s = "TENNESSEE" -> "Tennessee"
      [] s = "TEXAS"     -> "Texas"
      [] OTHER           -> s

\* Mutant of RowFilter: the upper end of the year range is exclusive.
RowFilterExclusiveMax(df, selected_states, year_range) ==
    SelectSeq(df, LAMBDA r : /\ r.State \in selected_states
                             /\ r.Year >= year_range[1]
                             /\ r.Year < year_range[2])

\* The boolean-mask selection of lines 51-55 (rows kept in frame order).
RowFilter(df, selected_states, year_range) ==
    SelectSeq(df, LAMBDA r : /\ r.State \in selected_states
                             /\ r.Year >= year_range[1]
                             /\ r.Year <= year_range[2])

\* Mutant of AddStateDisplay: the title-cased name also overwrites State.
AddStateDisplayOverState(df) ==
    [i \in 1..Len(df) |->
        [State |-> str_title(df[i].State), Year |-> df[i].Year,
         Value |-> df[i].Value, State_Display |-> str_title(df[i].State)]]

\* Line 60: filtered_df['State_Display'] = filtered_df['State'].str.title()
AddStateDisplay(df) ==
    [i \in 1..Len(df) |->
        [State |-> df[i].State, Year |-> df[i].Year,
         Value |-> df[i].Value, State_Display |-> str_title(df[i].State)]]

\* Lines 62-70: the px call chosen by chart_type; the last branch is an else.
ChartKind(chart_type) ==
    IF chart_type = "Line Chart" THEN "line"
    ELSE IF chart_type = "Area Chart" THEN "area"
    ELSE "bar"

CroplandLayout ==
    [xaxis_title |-> "Year", yaxis_title |-> "Price per Acre ($)",
     yaxis_tickformat |-> "$,.0f", height |-> 500, hovermode |-> "x unified"]

CroplandFigure(filtered_df, year_range, chart_type) ==
    [tag |-> "Figure", kind |-> ChartKind(chart_type),
     x |-> "Year", y |-> "Value", color |-> "State_Display",
     markers |-> (chart_type = "Line Chart"),
     title |-> <<"Cropland Values per Acre", year_range[1], year_range[2]>>,
     data |-> filtered_df, layout |-> CroplandLayout]

\* Mutant of create_cropland_chart: the `if filtered_df.empty` return is gone.
create_cropland_chart_no_empty_check(df, selected_states, year_range, chart_type) ==
    LET filtered_df == AddStateDisplay(RowFilter(df, selected_states, year_range))
    IN  [fig |-> CroplandFigure(filtered_df, year_range, chart_type),
         filtered_df |-> DataFrame(filtered_df)]

\* create_cropland_chart over the frame df (the global cropland_df): the
\* pair (fig, filtered_df) it returns.
create_cropland_chart(df, selected_states, year_range, chart_type) ==
    LET selected == RowFilter(df, selected_states, year_range)
        filtered_df == AddStateDisplay(selected)
    IN  IF selected = <<>>
        THEN [fig |-> None, filtered_df |-> None]
        ELSE [fig |-> CroplandFigure(filtered_df, year_range, chart_type),
              filtered_df |-> DataFrame(filtered_df)]

---------------------------------------------------------------------------
(* Summary statistics: lines 166-169 *)

RECURSIVE SeqSum(_)
SeqSum(s) == IF s = <<>> THEN 0 ELSE Head(s) + SeqSum(Tail(s))

RECURSIVE SeqSumSq(_)
SeqSumSq(s) == IF s = <<>> THEN 0 ELSE Head(s) * Head(s) + SeqSumSq(Tail(s))

SeqMin(s) == CHOOSE m \in {s[i] : i \in 1..Len(s)} : \A i \in 1..Len(s) : m <= s[i]

SeqMax(s) == CHOOSE m \in {s[i] : i \in 1..Len(s)} : \A i \in 1..Len(s) : m >= s[i]

\* The non-missing values of one group, in units of 1/Scale.
GroupValues(filtered_df, key) ==
    LET rows == SelectSeq(filtered_df,
                          LAMBDA r : r.State_Display = key /\ ~r.Value.isna)
    IN  [i \in 1..Len(rows) |-> rows[i].Value.num]

\* A whole number of units as a float.
Whole(k) == Num(k * Scale)

\* sqrt(num / den) rounded to the nearest integer, halves to even.  m is
\* the number of whole half-units below the root.
RoundSqrt(num, den, mmax) ==
    LET m == CHOOSE h \in 0..mmax :
                 /\ h * h * den <= 4 * num
                 /\ (h + 1) * (h + 1) * den > 4 * num
        k == m \div 2
    IN  IF m % 2 = 0 THEN k
        ELSE IF m * m * den = 4 * num /\ k % 2 = 0 THEN k
        ELSE k + 1

\* 'mean' over the non-missing values, then .round(0).
agg_mean(vals) ==
    IF vals = <<>> THEN NaN
    ELSE Whole(RoundHalfEven(SeqSum(vals), Len(vals) * Scale))

agg_min(vals) ==
    IF vals = <<>> THEN NaN ELSE Whole(RoundHalfEven(SeqMin(vals), Scale))

agg_max(vals) ==
    IF vals = <<>> THEN NaN ELSE Whole(RoundHalfEven(SeqMax(vals), Scale))

\* Mutant of agg_std: the population deviation (ddof = 0), 0 for one value.
agg_std_ddof0(vals) ==
    LET n == Len(vals)
    IN  IF n = 0 THEN NaN
        ELSE Whole(RoundSqrt(n * SeqSumSq(vals) - SeqSum(vals) * SeqSum(vals),
                             n * n * Scale * Scale,
                             2 * (SeqMax(vals) \div Scale) + 2))

\* 'std': the sample deviation (ddof = 1) over the non-missing values, NaN
\* when fewer than two are left, then .round(0).
agg_std(vals) ==
    LET n == Len(vals)
    IN  IF n <= 1 THEN NaN
        ELSE Whole(RoundSqrt(n * SeqSumSq(vals) - SeqSum(vals) * SeqSum(vals),
                             n * (n - 1) * Scale * Scale,
                             2 * (SeqMax(vals) \div Scale) + 2))

\* groupby('State_Display')['Value'].agg(['mean','min','max','std']).round(0)
\* with the renamed columns: one row per State_Display present in the frame,
\* whether or not any of its values is non-missing.
summary_stats(filtered_df) ==
    LET keys == {filtered_df[i].State_Display : i \in 1..Len(filtered_df)}
    IN  [k \in keys |->
            LET vals == GroupValues(filtered_df, k)
            IN  [Average |-> agg_mean(vals), Minimum |-> agg_min(vals),
                 Maximum |-> agg_max(vals), StdDev |-> agg_std(vals)]]

---------------------------------------------------------------------------
(* Crop prices: lines 83-98 and 185-190 *)

Commodities == {"WHEAT", "CORN", "SOYBEANS"}

CropLayout ==
    [xaxis_title |-> "Year", yaxis_title |-> "Price per Bushel ($)",
     yaxis_tickformat |-> "$,.2f", height |-> 500, hovermode |-> "x unified"]

\* create_crop_prices_chart over the frame df (the global crop_prices_df).
create_crop_prices_chart(df) ==
    LET filtered_data == SelectSeq(df, LAMBDA r : r.Commodity \in Commodities)
    IN  [fig |-> [tag |-> "Figure", kind |-> "line", x |-> "Year", y |-> "Value",
                  color |-> "Commodity", markers |-> TRUE,
                  title |-> <<"National Crop Prices (1975-2025)">>,
                  data |-> filtered_data, layout |-> CropLayout],
         filtered_data |-> filtered_data]

\* Line 187: the rows at the largest Year of the frame, two columns kept.
\* On an empty frame Year.max() is NaN and no row compares equal to it.
LatestRows(crop_data) ==
    LET rows == SelectSeq(crop_data,
                          LAMBDA r : \A i \in 1..Len(crop_data) :
                                         crop_data[i].Year <= r.Year)
    IN  [i \in 1..Len(rows) |->
            [Commodity |-> rows[i].Commodity, Value |-> rows[i].Value]]

\* a before b is allowed by sort_values('Value', ascending=False): NaN last,
\* larger values first.  Rows of equal value are not ordered by it.
MayPrecede(a, b) ==
    \/ b.Value.isna
    \/ ~a.Value.isna /\ a.Value.num >= b.Value.num

Orderings(n) ==
    {f \in [1..n -> 1..n] : \A i, j \in 1..n : i # j => f[i] # f[j]}

\* Line 188: every order the default (quicksort, not stable) sort may
\* leave the rows in.
SortValuesDescending(rows) ==
    {[i \in 1..Len(rows) |-> rows[p[i]]] :
        p \in {q \in Orderings(Len(rows)) :
                  \A i \in 1..(Len(rows) - 1) :
                      MayPrecede(rows[q[i]], rows[q[i + 1]])}}

\* f"${x:.2f}": the value in hundredths, or the text "$nan".
FormatDollars(v) ==
    IF v.isna THEN [text |-> "$nan", hundredths |-> 0]
    ELSE [text |-> "$.2f", hundredths |-> RoundHalfEven(v.num * 100, Scale)]

\* Line 189: the Value column replaced by its formatted text.
FormatLatest(rows) ==
    [i \in 1..Len(rows) |->
        [Commodity |-> rows[i].Commodity, Value |-> FormatDollars(rows[i].Value)]]

---------------------------------------------------------------------------
(* Price index: lines 101-121 and 205-217 *)

IndexFromYear == 1990

IndexToYear == 2025

IndexLayout ==
    [xaxis_title |-> "Year", yaxis_title |-> "Price Index (2011 = 100)",
     yaxis_tickformat |-> ".1f", height |-> 500, showlegend |-> FALSE]

\* create_price_index_chart over the frame df (the global index_df).
create_price_index_chart(df) ==
    LET filtered_data == SelectSeq(df, LAMBDA r : /\ r.Year >= IndexFromYear
                                                  /\ r.Year <= IndexToYear)
    IN  [fig |-> [tag |-> "Figure", kind |-> "line", x |-> "Year", y |-> "Value",
                  color |-> "none", markers |-> TRUE,
                  title |-> <<"National Food Commodity Price Index (1990-2025)">>,
                  data |-> filtered_data, layout |-> IndexLayout,
                  hline |-> [y |-> 100, annotation_text |-> "2011 Base Year (100)"]],
         filtered_data |-> filtered_data]

\* Line 205: index_data['Value'].iloc[0] -- the first row of the frame.
current_index(index_data) == index_data[1].Value

\* The non-missing values of the Value column.
IndexValues(index_data) ==
    LET rows == SelectSeq(index_data, LAMBDA r : ~r.Value.isna)
    IN  [i \in 1..Len(rows) |-> rows[i].Value.num]

\* f"{x:.1f}" of num / den (den > 0): signed tenths.
FormatTenths(num, den) ==
    IF num >= 0 THEN RoundHalfEven(num * 10, den)
    ELSE 0 - RoundHalfEven((0 - num) * 10, den)

\* Lines 206-217: the four metrics as displayed.
IndexMetrics(index_data) ==
    LET cur  == current_index(index_data)
        vals == IndexValues(index_data)
    IN  [current |-> cur,
         current_text |-> IF cur.isna THEN [text |-> "nan", tenths |-> 0]
                          ELSE [text |-> ".1f", tenths |-> FormatTenths(cur.num, Scale)],
         delta_text |-> IF cur.isna THEN [text |-> "nan", tenths |-> 0]
                        ELSE [text |-> ".1f",
                              tenths |-> FormatTenths(cur.num - 100 * Scale, Scale)],
         avg_text |-> IF vals = <<>> THEN [text |-> "nan", tenths |-> 0]
                      ELSE [text |-> ".1f",
                            tenths |-> FormatTenths(SeqSum(vals), Len(vals) * Scale)],
         max_text |-> IF vals = <<>> THEN [text |-> "nan", tenths |-> 0]
                      ELSE [text |-> ".1f", tenths |-> FormatTenths(SeqMax(vals), Scale)],
         min_text |-> IF vals = <<>> THEN [text |-> "nan", tenths |-> 0]
                      ELSE [text |-> ".1f", tenths |-> FormatTenths(SeqMin(vals), Scale)]]

---------------------------------------------------------------------------
(* DataFrame objects *)

\* Mutant of copy: no new object, the result is the source object itself.
copy_alias(h, src) == src

\* The object a selection followed by .copy() yields: a new one.
copy(h, src) == Len(h) + 1

\* The heap with `table` as the content of object ref.
Store(h, ref, table) ==
    IF ref = Len(h) + 1 THEN Append(h, table) ELSE [h EXCEPT ![ref] = table]

NoNames ==
    [cropland_df |-> 0, crop_prices_df |-> 0, index_df |-> 0,
     filtered_df |-> 0, crop_data |-> 0, latest_prices |-> 0, index_data |-> 0]

NotRun == [status |-> "not run"]

---------------------------------------------------------------------------
(* Widgets: lines 20-23 and 133-157 *)

AnalysisTypes ==
    {"Regional Cropland Values", "National Crop Prices",
     "National Price Index", "All Charts"}

available_states == {"KENTUCKY", "INDIANA", "OHIO", "TENNESSEE"}

\* Values of the multiselect that are tried: every choice among the two
\* states the modelled files hold, and the default (all four).
Selections == (SUBSET {"KENTUCKY", "OHIO"}) \cup {available_states}

ChartTypes == {"Line Chart", "Area Chart", "Bar Chart"}

FrameYears(df) == {df[i].Year : i \in 1..Len(df)}

min_year(df) == CHOOSE y \in FrameYears(df) : \A z \in FrameYears(df) : y <= z

max_year(df) == CHOOSE y \in FrameYears(df) : \A z \in FrameYears(df) : y >= z

\* Line 148: the slider's default value.
DefaultFromYear == 1997

DefaultToYear == 2025

\* st.slider widens [min_value, max_value] to hold its default value.
SliderMin(df) == IF min_year(df) < DefaultFromYear THEN min_year(df) ELSE DefaultFromYear

SliderMax(df) == IF max_year(df) > DefaultToYear THEN max_year(df) ELSE DefaultToYear

\* Values of the range slider that are tried: both ends among the years of
\* the frame and the two default years.
SliderRanges(df) ==
    {r \in (FrameYears(df) \cup {DefaultFromYear, DefaultToYear})
             \X (FrameYears(df) \cup {DefaultFromYear, DefaultToYear}) :
        /\ SliderMin(df) <= r[1]
        /\ r[1] <= r[2]
        /\ r[2] <= SliderMax(df)}

---------------------------------------------------------------------------
(* The script run *)

\* Lines 1-47: the page header, then the three cached loads.
Load ==
    /\ pc = "load"
    /\ heap' = <<load_cropland_data(files.cropland),
                 load_crop_prices_data(files.crop),
                 load_index_data(files.index)>>
    /\ env' = [NoNames EXCEPT !.cropland_df = 1, !.crop_prices_df = 2,
                              !.index_df = 3]
    /\ loaded' = [cropland |-> heap'[1], crop |-> heap'[2], index |-> heap'[3]]
    /\ pc' = "cropland"
    /\ UNCHANGED <<files, analysis_type, cropland_out, crop_out, index_out,
                   error, ret>>

\* Lines 160-173 for one reading of the three widgets.
CroplandBody(selected_states, year_range, chart_type) ==
    LET df  == heap[env.cropland_df]
        res == create_cropland_chart(df, selected_states, year_range, chart_type)
        ref == copy(heap, env.cropland_df)
        widgets == [selected_states |-> selected_states,
                    year_range |-> year_range, chart_type |-> chart_type]
    IN  IF selected_states = {}
        THEN /\ cropland_out' =
                    [status |-> "warning", widgets |-> widgets,
                     message |-> "Please select at least one state.",
                     fig |-> None, summary_stats |-> None]
             /\ UNCHANGED <<heap, env>>
        ELSE /\ heap' = Store(heap, ref,
                              IF res.filtered_df = None
                              THEN RowFilter(df, selected_states, year_range)
                              ELSE res.filtered_df.rows)
             /\ env' = [env EXCEPT
                          !.filtered_df = IF res.filtered_df = None THEN 0 ELSE ref]
             /\ cropland_out' =
                    IF res.fig # None
                    THEN [status |-> "chart", widgets |-> widgets,
                          message |-> "", fig |-> res.fig,
                          summary_stats |-> summary_stats(res.filtered_df.rows)]
                    ELSE [status |-> "warning", widgets |-> widgets,
                          message |-> "No data available for selected filters.",
                          fig |-> None, summary_stats |-> None]

\* Lines 124-176.  int(cropland_df['Year'].min()) raises ValueError on a
\* frame without rows: min() is NaN.
CroplandSection ==
    /\ pc = "cropland"
    /\ IF analysis_type \in {"Regional Cropland Values", "All Charts"}
       THEN IF heap[env.cropland_df] = <<>>
            THEN /\ error' = "ValueError"
                 /\ pc' = "crashed"
                 /\ cropland_out' = [status |-> "error"]
                 /\ UNCHANGED <<heap, env>>
            ELSE /\ \E selected_states \in Selections,
                       year_range \in SliderRanges(heap[env.cropland_df]),
                       chart_type \in ChartTypes :
                         CroplandBody(selected_states, year_range, chart_type)
                 /\ pc' = "crop_prices"
                 /\ error' = error
       ELSE /\ pc' = "crop_prices"
            /\ cropland_out' = [status |-> "skipped"]
            /\ UNCHANGED <<heap, env, error>>
    /\ UNCHANGED <<files, analysis_type, loaded, crop_out, index_out, ret>>

\* Lines 179-193.
CropPricesSection ==
    /\ pc = "crop_prices"
    /\ IF analysis_type \in {"National Crop Prices", "All Charts"}
       THEN LET res   == create_crop_prices_chart(heap[env.crop_prices_df])
                ref   == copy(heap, env.crop_prices_df)
                heap1 == Store(heap, ref, res.filtered_data)
            IN  \E sorted \in SortValuesDescending(LatestRows(heap1[ref])) :
                    /\ heap' = Append(heap1, FormatLatest(sorted))
                    /\ env' = [env EXCEPT !.crop_data = ref,
                                          !.latest_prices = Len(heap1) + 1]
                    /\ crop_out' = [status |-> "chart", fig |-> res.fig,
                                    sorted |-> sorted,
                                    latest_prices |-> FormatLatest(sorted)]
       ELSE /\ crop_out' = [status |-> "skipped"]
            /\ UNCHANGED <<heap, env>>
    /\ pc' = "price_index"
    /\ UNCHANGED <<files, analysis_type, loaded, cropland_out, index_out,
                   error, ret>>

\* Lines 196-217.  .iloc[0] raises IndexError on a frame without rows,
\* after the chart has been drawn.
PriceIndexSection ==
    /\ pc = "price_index"
    /\ IF analysis_type \in {"National Price Index", "All Charts"}
       THEN LET res == create_price_index_chart(heap[env.index_df])
                ref == copy(heap, env.index_df)
            IN  /\ heap' = Store(heap, ref, res.filtered_data)
                /\ env' = [env EXCEPT !.index_data = ref]
                /\ IF res.filtered_data = <<>>
                   THEN /\ index_out' = [status |-> "error", fig |-> res.fig]
                        /\ error' = "IndexError"
                        /\ pc' = "crashed"
                   ELSE /\ index_out' = [status |-> "chart", fig |-> res.fig,
                                         metrics |-> IndexMetrics(res.filtered_data)]
                        /\ error' = error
                        /\ pc' = "footer"
       ELSE /\ index_out' = [status |-> "skipped"]
            /\ pc' = "footer"
            /\ UNCHANGED <<heap, env, error>>
    /\ UNCHANGED <<files, analysis_type, loaded, cropland_out, crop_out, ret>>

\* Lines 219-221.
Footer ==
    /\ pc = "footer"
    /\ pc' = "done"
    /\ UNCHANGED <<files, analysis_type, heap, env, loaded, cropland_out,
                   crop_out, index_out, error, ret>>

\* A widget changes: the script is stopped where it is and run again from
\* the top, with nothing of the previous run left but the files.
Rerun ==
    /\ pc # "load"
    /\ analysis_type' \in AnalysisTypes
    /\ pc' = "load"
    /\ heap' = <<>>
    /\ env' = NoNames
    /\ loaded' = None
    /\ cropland_out' = NotRun
    /\ crop_out' = NotRun
    /\ index_out' = NotRun
    /\ error' = "None"
    /\ UNCHANGED <<files, ret>>

Next ==
    \/ Load
    \/ CroplandSection
    \/ CropPricesSection
    \/ PriceIndexSection
    \/ Footer
    \/ Rerun

\* The state before the first run, given the files and the sidebar choice.
Start(fs, at) ==
    /\ files = fs
    /\ analysis_type = at
    /\ pc = "load"
    /\ heap = <<>>
    /\ env = NoNames
    /\ loaded = None
    /\ cropland_out = NotRun
    /\ crop_out = NotRun
    /\ index_out = NotRun
    /\ error = "None"
    /\ ret = NotRun

RECURSIVE SeqsOfLen(_, _)
SeqsOfLen(S, n) ==
    IF n = 0 THEN {<<>>}
    ELSE {Append(s, x) : s \in SeqsOfLen(S, n - 1), x \in S}

SeqsUpTo(S, n) == UNION {SeqsOfLen(S, k) : k \in 0..n}

CroplandFileA ==
    <<[State |-> "KENTUCKY", Year |-> 2024, Value |-> <<"2">>],
      [State |-> "OHIO",     Year |-> 2024, Value |-> <<"x">>],
      [State |-> "KENTUCKY", Year |-> 2025, Value |-> <<".", "5">>]>>

CroplandFileB ==
    <<[State |-> "TEXAS", Year |-> 2025, Value |-> <<"1">>],
      [State |-> "OHIO",  Year |-> 2024, Value |-> <<"1", ",", "5">>]>>

CropFileA ==
    <<[Commodity |-> "WHEAT",    Year |-> 2025, Value |-> <<"5">>],
      [Commodity |-> "CORN",     Year |-> 2025, Value |-> <<"5">>],
      [Commodity |-> "SOYBEANS", Year |-> 2024, Value |-> <<"1", ".", "5">>]>>

CropFileB ==
    <<[Commodity |-> "RICE", Year |-> 2025, Value |-> <<"1">>],
      [Commodity |-> "CORN", Year |-> 2024, Value |-> <<"x">>]>>

IndexFileA ==
    <<[Year |-> 2024, Value |-> <<"1">>],
      [Year |-> 2025, Value |-> <<"1", ".", "5">>]>>

IndexFileB ==
    <<[Year |-> 2026, Value |-> <<"5">>],
      [Year |-> 2025, Value |-> <<"x">>],
      [Year |-> 1989, Value |-> <<"1">>]>>

IndexFileC == <<[Year |-> 2026, Value |-> <<"1">>]>>

\* The application: a few files of each kind, every sidebar choice.
Init ==
    \E c \in {CroplandFileA, CroplandFileB, <<>>},
       p \in {CropFileA, CropFileB},
       x \in {IndexFileA, IndexFileB, IndexFileC},
       at \in AnalysisTypes :
        Start([cropland |-> c, crop |-> p, index |-> x], at)

Spec == Init /\ [][Next]_vars

---------------------------------------------------------------------------
(* create_cropland_chart called on its own, with any argument values *)

CallStates == {"KENTUCKY", "OHIO"}

CallYears == {2024, 2025}

KindInputs == ChartTypes \cup {"Pie Chart"}

CallCreateCroplandChart ==
    /\ pc = "cropland"
    /\ \E selected_states \in SUBSET CallStates,
          year_range \in CallYears \X CallYears,
          chart_type \in KindInputs :
            LET df  == heap[env.cropland_df]
                res == create_cropland_chart(df, selected_states, year_range,
                                             chart_type)
                ref == copy(heap, env.cropland_df)
            IN  /\ heap' = Store(heap, ref,
                                 IF res.filtered_df = None
                                 THEN RowFilter(df, selected_states, year_range)
                                 ELSE res.filtered_df.rows)
                /\ env' = [env EXCEPT
                             !.filtered_df = IF res.filtered_df = None THEN 0 ELSE ref]
                /\ ret' = [status |-> "returned",
                           selected_states |-> selected_states,
                           year_range |-> year_range, chart_type |-> chart_type,
                           fig |-> res.fig, filtered_df |-> res.filtered_df]
    /\ pc' = "returned"
    /\ UNCHANGED <<files, analysis_type, loaded, cropland_out, crop_out,
                   index_out, error>>

---------------------------------------------------------------------------
(* Specifications over exhaustively enumerated files *)

Chars == {"1", "5", ",", ".", "x"}

RawTexts == SeqsUpTo(Chars, MaxRawLen)

\* Table t with row r put in after its first k rows.
InsertRow(t, k, r) == SubSeq(t, 1, k) \o <<r>> \o SubSeq(t, k + 1, Len(t))

SampleFiles == [cropland |-> CroplandFileA, crop |-> CropFileA, index |-> IndexFileA]

\* One row with any Value text, anywhere in one of the three files.
InitLoad ==
    \E t \in RawTexts :
        \/ \E k \in 0..Len(CroplandFileA) :
              Start([SampleFiles EXCEPT !.cropland =
                        InsertRow(CroplandFileA, k,
                                  [State |-> "OHIO", Year |-> 2025, Value |-> t])],
                    "All Charts")
        \/ \E k \in 0..Len(CropFileA) :
              Start([SampleFiles EXCEPT !.crop =
                        InsertRow(CropFileA, k,
                                  [Commodity |-> "CORN", Year |-> 2024, Value |-> t])],
                    "All Charts")
        \/ \E k \in 0..Len(IndexFileA) :
              Start([SampleFiles EXCEPT !.index =
                        InsertRow(IndexFileA, k, [Year |-> 2023, Value |-> t])],
                    "All Charts")

SpecLoad == InitLoad /\ [][Load]_vars

ValueTexts == {<<"x">>, <<".", "5">>, <<"2">>}

\* KENTUCKY in two years, OHIO (the other state) in one.
CroplandRows ==
    [State : {"KENTUCKY"}, Year : {1997, 2025}, Value : ValueTexts]
        \cup [State : {"OHIO"}, Year : {1997}, Value : ValueTexts]

\* Every cropland file of at most MaxRows rows; the cropland section alone.
InitCropland ==
    \E c \in SeqsUpTo(CroplandRows, MaxRows) :
        Start([SampleFiles EXCEPT !.cropland = c], "Regional Cropland Values")

NextCropland == Load \/ CroplandSection

SpecCropland == InitCropland /\ [][NextCropland]_vars

ChartRows ==
    [State : {"KENTUCKY", "OHIO"}, Year : {2024, 2025}, Value : {<<"x">>, <<"2">>}]

\* Every cropland file of at most MaxRows rows; create_cropland_chart alone.
InitChart ==
    \E c \in SeqsUpTo(ChartRows, MaxRows) :
        Start([SampleFiles EXCEPT !.cropland = c], "All Charts")

NextChart == Load \/ CallCreateCroplandChart

SpecChart == InitChart /\ [][NextChart]_vars

CropRows ==
    [Commodity : {"WHEAT", "CORN", "RICE"}, Year : {2024, 2025}, Value : ValueTexts]

\* Every crop prices file of at most MaxRows rows, up to its section.
InitCrop ==
    \E c \in SeqsUpTo(CropRows, MaxRows) :
        Start([SampleFiles EXCEPT !.crop = c], "National Crop Prices")

NextCrop == Load \/ CroplandSection \/ CropPricesSection

SpecCrop == InitCrop /\ [][NextCrop]_vars

IndexRows ==
    [Year : {IndexFromYear - 1, IndexToYear - 1, IndexToYear, IndexToYear + 1},
     Value : ValueTexts]

\* Every index file of at most MaxRows rows, up to its section.
InitIndex ==
    \E c \in SeqsUpTo(IndexRows, MaxRows) :
        Start([SampleFiles EXCEPT !.index = c], "National Price Index")

NextIndex == Load \/ CroplandSection \/ CropPricesSection \/ PriceIndexSection

SpecIndex == InitIndex /\ [][NextIndex]_vars

---------------------------------------------------------------------------
(* Properties *)

\* The positions of the rows of df that the selection asks for.
MatchingRows(df, selected_states, year_range) ==
    {j \in 1..Len(df) : /\ df[j].State \in selected_states
                        /\ year_range[1] <= df[j].Year
                        /\ df[j].Year <= year_range[2]}

\* The i-th smallest member of a set of positions.
NthOf(idx, i) == CHOOSE j \in idx : Cardinality({k \in idx : k < j}) = i - 1

\* The columns a view row shares with the dataset row it comes from.
BaseRow(r) == [State |-> r.State, Year |-> r.Year, Value |-> r.Value]

\* The rows create_cropland_chart selected: those of the frame it returned,
\* none when it returned None.
ReturnedRows == IF ret.filtered_df = None THEN <<>> ELSE ret.filtered_df.rows

\* C1: the row selection of create_cropland_chart returns exactly the rows
\* whose State is selected and whose Year lies in [min, max], both ends
\* included, in dataset order, none added, duplicated or altered.
C1_FilterIsOrderedSubsequence ==
    ret.status = "returned" =>
        LET df  == loaded.cropland
            idx == MatchingRows(df, ret.selected_states, ret.year_range)
        IN  /\ Len(ReturnedRows) = Cardinality(idx)
            /\ \A i \in 1..Len(ReturnedRows) :
                  BaseRow(ReturnedRows[i]) = df[NthOf(idx, i)]

\* A call over a two-year range that kept rows at both ends of the range
\* and left a row out.
C1_Witness ==
    /\ ret.status = "returned"
    /\ ret.year_range[1] < ret.year_range[2]
    /\ Len(ReturnedRows) < Len(loaded.cropland)
    /\ \E i, j \in 1..Len(ReturnedRows) :
          /\ i < j
          /\ ReturnedRows[i].Year = ret.year_range[2]
          /\ ReturnedRows[j].Year = ret.year_range[1]

\* C8: filtering the view again with the same selection gives the same
\* view: same rows, same order.
C8_FilterIdempotent ==
    ret.status = "returned" =>
        create_cropland_chart(ReturnedRows, ret.selected_states, ret.year_range,
                              ret.chart_type).filtered_df = ret.filtered_df

\* A call that returned a view of two rows or more, smaller than the dataset.
C8_Witness ==
    /\ ret.status = "returned"
    /\ ret.filtered_df # None
    /\ Len(ret.filtered_df.rows) >= 2
    /\ Len(ret.filtered_df.rows) < Len(loaded.cropland)

\* C7: called with a kind other than Line, Area and Bar on a non-empty
\* view, create_cropland_chart yields a configuration error and no chart.
C7_UnsupportedKindRejected ==
    (/\ ret.status = "returned"
     /\ ret.chart_type \notin ChartTypes
     /\ MatchingRows(loaded.cropland, ret.selected_states, ret.year_range) # {})
        => ret.fig.tag # "Figure"

NonMissing(view, k) ==
    {i \in 1..Len(view) : view[i].State_Display = k /\ ~view[i].Value.isna}

RECURSIVE SumOver(_, _)
SumOver(view, idx) ==
    IF idx = {} THEN 0
    ELSE LET i == CHOOSE j \in idx : TRUE
         IN  view[i].Value.num + SumOver(view, idx \ {i})

\* x is a / b as a whole number of units, halves going to the even one.
RoundsTo(x, a, b) ==
    \E k \in 0..((a \div b) + 1) :
        /\ x = Num(k * Scale)
        /\ \/ 2 * (a - k * b) < b /\ 2 * (k * b - a) < b
           \/ (2 * (a - k * b) = b \/ 2 * (k * b - a) = b) /\ k % 2 = 0

\* Mean, minimum and maximum of the rows idx of the view, as displayed.
AggregatesOver(row, view, idx) ==
    /\ RoundsTo(row.Average, SumOver(view, idx), Cardinality(idx) * Scale)
    /\ \E i \in idx :
          /\ \A j \in idx : view[i].Value.num <= view[j].Value.num
          /\ RoundsTo(row.Minimum, view[i].Value.num, Scale)
    /\ \E i \in idx :
          /\ \A j \in idx : view[i].Value.num >= view[j].Value.num
          /\ RoundsTo(row.Maximum, view[i].Value.num, Scale)

\* C3: the summary has no row for a state all of whose values in the view
\* are missing.
C3_NoRowForAllMissingEntity ==
    cropland_out.status = "chart" =>
        \A k \in DOMAIN cropland_out.summary_stats :
            NonMissing(cropland_out.fig.data, k) # {}

NameRank(c) ==
    CASE c = "CORN" -> 1 [] c = "RICE" -> 2 [] c = "SOYBEANS" -> 3
      [] c = "WHEAT" -> 4

\* a may stand before b: larger value first (missing values last), and
\* for equal values the name earlier in the alphabet first.
ValueThenName(a, b) ==
    \/ b.Value.isna
    \/ ~a.Value.isna /\ a.Value.num > b.Value.num
    \/ /\ a.Value = b.Value
       /\ NameRank(a.Commodity) <= NameRank(b.Commodity)

\* C5: the latest prices are exactly the (Commodity, Value) rows of the
\* view at its largest Year, sorted by value descending, rows of equal
\* value by commodity name ascending.
C5_LatestSortedByValueThenName ==
    crop_out.status = "chart" =>
        LET view   == crop_out.fig.data
            rows   == crop_out.sorted
            latest == {i \in 1..Len(view) :
                          \A j \in 1..Len(view) : view[j].Year <= view[i].Year}
            pair(r) == [Commodity |-> r.Commodity, Value |-> r.Value]
        IN  /\ Len(rows) = Cardinality(latest)
            /\ \A i \in latest :
                  Cardinality({j \in 1..Len(rows) : rows[j] = pair(view[i])})
                      = Cardinality({j \in latest : pair(view[j]) = pair(view[i])})
            /\ \A i, j \in 1..Len(rows) :
                  i < j => ValueThenName(rows[i], rows[j])

\* C6: the current index is the value of the row at the largest Year of
\* the view, the first such row in dataset order when several share it.
C6_CurrentIndexIsAtMaxPeriod ==
    index_out.status = "chart" =>
        LET view  == index_out.fig.data
            first == CHOOSE i \in 1..Len(view) :
                        /\ \A j \in 1..Len(view) : view[j].Year <= view[i].Year
                        /\ \A j \in 1..(i - 1) : view[j].Year < view[i].Year
        IN  index_out.metrics.current = view[first].Value

RECURSIVE NoCommas(_)
NoCommas(t) ==
    IF t = <<>> THEN <<>>
    ELSE IF Head(t) = "," THEN NoCommas(Tail(t))
    ELSE <<Head(t)>> \o NoCommas(Tail(t))

\* t is written as a decimal number: digits with at most one point.
IsNumeral(t) ==
    /\ \A i \in 1..Len(t) : t[i] \in Digits \cup {"."}
    /\ Cardinality({i \in 1..Len(t) : t[i] = "."}) <= 1
    /\ \E i \in 1..Len(t) : t[i] \in Digits

RECURSIVE PlaceSum(_, _, _)
PlaceSum(t, point, idx) ==
    IF idx = {} THEN 0
    ELSE LET i == CHOOSE j \in idx : TRUE
             w == IF i < point THEN Scale * Pow10(point - 1 - i)
                  ELSE Scale \div Pow10(i - point)
         IN  DigitVal(t[i]) * w + PlaceSum(t, point, idx \ {i})

\* The number a numeral denotes, digit by digit from its place.
NumeralValue(t) ==
    LET points == {i \in 1..Len(t) : t[i] = "."}
        point  == IF points = {} THEN Len(t) + 1 ELSE CHOOSE i \in points : TRUE
    IN  PlaceSum(t, point, {i \in 1..Len(t) : t[i] \in Digits})

\* The float a Value text stands for: its number, or missing.
Normalized(t) == IF IsNumeral(t) THEN Num(NumeralValue(t)) ELSE NaN

\* C9: loading keeps every row of every file, in order; each Value is the
\* number its text denotes (commas removed first in the cropland file) or
\* missing when the text denotes none, and never a string.
C9_NormalizeKeepsRows ==
    pc # "load" =>
        LET cropland == heap[env.cropland_df]
            crop     == heap[env.crop_prices_df]
            index    == heap[env.index_df]
        IN  /\ Len(cropland) = Len(files.cropland)
            /\ Len(crop) = Len(files.crop)
            /\ Len(index) = Len(files.index)
            /\ \A i \in 1..Len(files.cropland) :
                  /\ cropland[i].State = files.cropland[i].State
                  /\ cropland[i].Year = files.cropland[i].Year
                  /\ cropland[i].Value = Normalized(NoCommas(files.cropland[i].Value))
                  /\ DOMAIN cropland[i].Value = {"isna", "num"}
            /\ \A i \in 1..Len(files.crop) :
                  /\ crop[i].Commodity = files.crop[i].Commodity
                  /\ crop[i].Year = files.crop[i].Year
                  /\ crop[i].Value = Normalized(files.crop[i].Value)
                  /\ DOMAIN crop[i].Value = {"isna", "num"}
            /\ \A i \in 1..Len(files.index) :
                  /\ index[i].Year = files.index[i].Year
                  /\ index[i].Value = Normalized(files.index[i].Value)
                  /\ DOMAIN index[i].Value = {"isna", "num"}

\* A loaded cropland frame with a value read from a text with a comma, a
\* fractional value, and a value that did not parse.
C9_Witness ==
    /\ pc # "load"
    /\ \E i, j, k \in 1..Len(files.cropland) :
          /\ \E m \in 1..Len(files.cropland[i].Value) :
                files.cropland[i].Value[m] = ","
          /\ ~heap[env.cropland_df][i].Value.isna
          /\ ~heap[env.cropland_df][j].Value.isna
          /\ heap[env.cropland_df][j].Value.num % Scale # 0
          /\ heap[env.cropland_df][k].Value.isna

\* C10: once loaded, the three frames keep their rows, columns and values
\* through every section and every rerun; State_Display and the formatted
\* prices exist on the copies only.
C10_FramesNeverModified ==
    pc # "load" =>
        /\ heap[env.cropland_df] = loaded.cropland
        /\ heap[env.crop_prices_df] = loaded.crop
        /\ heap[env.index_df] = loaded.index
        /\ \A i \in 1..Len(heap[env.cropland_df]) :
              DOMAIN heap[env.cropland_df][i] = {"State", "Year", "Value"}
        /\ \A i \in 1..Len(heap[env.crop_prices_df]) :
              DOMAIN heap[env.crop_prices_df][i].Value = {"isna", "num"}

\* The end of a run in which all three sections rendered: the filtered
\* copy carries State_Display and the latest prices are formatted.
C10_Witness ==
    /\ pc = "done"
    /\ cropland_out.status = "chart"
    /\ crop_out.status = "chart"
    /\ index_out.status = "chart"
    /\ env.filtered_df # 0
    /\ Len(heap[env.filtered_df]) < Len(heap[env.cropland_df])
    /\ \A i \in 1..Len(heap[env.filtered_df]) :
          "State_Display" \in DOMAIN heap[env.filtered_df][i]
    /\ \E i \in 1..Len(heap[env.latest_prices]) :
          heap[env.latest_prices][i].Value.text = "$.2f"

=============================================================================
